---------------------------- MODULE Spec2Model ----------------------------
(***************************************************************************)
(* A model of the potato disease classifier (potato_classifier/utils.py,  *)
(* serializers.py, models.py and views.py).                                *)
(*                                                                         *)
(* Python sequences are 0-based; the sequences here are 1-based.  Where   *)
(* the code reports an index (the shape mismatch message) the model        *)
(* reports the Python index, i.e. the TLA+ index minus one.                *)
(* Floating point scores are modelled as integers (hundredths).            *)
(***************************************************************************)
EXTENDS Integers, Sequences, FiniteSets, TLC

VARIABLES
    model,      \* the model file found at settings.MODEL_PATH
    req,        \* per worker: the classify request it is handling
    db,         \* the ImageClassification table, in creation order
    nRequests,  \* classify requests received so far
    sessions,   \* ort.InferenceSession objects constructed by the process
    inferCalls, \* calls of run_onnx_inference made by the process
    input,      \* argument of the function under check (function specs)
    output      \* its result, NotRun before the call

vars == <<model, req, db, nRequests, sessions, inferCalls, input, output>>

-----------------------------------------------------------------------------
(* Bounds of the model *)

\* classify requests received in one behaviour
MaxRequests == 3

\* largest score in a score vector of the formatter's specification
MaxScore == 2

\* longest tensor / declared input shape of the inference specification
MaxRank == 4

\* rows stored in the history specification
MaxRecords == 52

\* rows of the history specification created within one tick of the clock
\* of the row before them
MaxTies == 1

NotRun == [kind |-> "not_run"]

-----------------------------------------------------------------------------
(* utils.py: the class labels and the recommendation table *)

CLASS_NAMES ==
    << "Bacteria", "Fungi", "Nematode", "Pest", "Pythopthora", "Virus",
       "Healthy" >>

DISEASE_RECOMMENDATIONS ==
    [ Bacteria |->
        << "Apply copper-based bactericides as preventive measure",
           "Ensure proper field drainage to reduce moisture",
           "Rotate crops with non-host plants for 2-3 years",
           "Remove and destroy infected plant debris",
           "Use certified disease-free seed potatoes" >>,
      Fungi |->
        << "Apply fungicide treatments during favorable weather conditions",
           "Improve air circulation around plants by proper spacing",
           "Avoid overhead irrigation to reduce leaf wetness",
           "Practice crop rotation with non-susceptible crops",
           "Remove infected plant material and dispose properly" >>,
      Nematode |->
        << "Use nematode-resistant potato varieties when available",
           "Apply organic soil amendments like compost to improve soil health",
           "Practice long-term crop rotation with non-host crops",
           "Consider soil solarization in heavily infested areas",
           "Use beneficial nematodes as biological control agents" >>,
      Pest |->
        << "Monitor fields regularly for early pest detection",
           "Use integrated pest management (IPM) strategies",
           "Apply targeted insecticides only when threshold levels are reached",
           "Encourage beneficial insects by maintaining habitat diversity",
           "Remove weeds that may harbor pest insects" >>,
      Pythopthora |->
        << "Improve soil drainage and avoid waterlogged conditions",
           "Apply preventive fungicide treatments during wet periods",
           "Plant in raised beds to improve drainage",
           "Use resistant potato varieties when available",
           "Avoid working in fields when plants are wet" >>,
      Virus |->
        << "Control aphid vectors through insecticide applications",
           "Use certified virus-free seed potatoes",
           "Remove infected plants immediately to prevent spread",
           "Control weeds that may serve as virus reservoirs",
           "Practice good field sanitation and equipment cleaning" >>,
      Healthy |->
        << "Continue current management practices as they are effective",
           "Monitor plants regularly for any signs of disease or stress",
           "Maintain proper fertilization and irrigation schedules",
           "Keep fields clean of weeds and plant debris",
           "Rotate crops to prevent soil-borne disease buildup" >> ]

\* the default handed to DISEASE_RECOMMENDATIONS.get
GENERIC_RECOMMENDATIONS ==
    << "Consult with a plant pathologist for specific treatment recommendations",
       "Monitor the affected area closely for changes",
       "Consider laboratory testing for accurate diagnosis",
       "Implement general good agricultural practices",
       "Keep detailed records of symptoms and treatments" >>

\* dict.get(key, default)
DictGet(d, key, default) == IF key \in DOMAIN d THEN d[key] ELSE default

-----------------------------------------------------------------------------
(* utils.py: get_classification_results *)

\* np.argmax scans left to right and keeps the first largest element:
\* the best index changes only on a strictly larger value.
RECURSIVE ArgmaxScan(_, _, _)
ArgmaxScan(v, i, best) ==
    IF i > Len(v) THEN best
    ELSE ArgmaxScan(v, i + 1, IF v[i] > v[best] THEN i ELSE best)

\* a scan that moves on ties: the last largest element
RECURSIVE ArgmaxScanLast(_, _, _)
ArgmaxScanLast(v, i, best) ==
    IF i > Len(v) THEN best
    ELSE ArgmaxScanLast(v, i + 1, IF v[i] >= v[best] THEN i ELSE best)

argmaxLast(v) == ArgmaxScanLast(v, 2, 1)

argmax(v) == ArgmaxScan(v, 2, 1)

\* the loop  for i, class_name in enumerate(CLASS_NAMES):
\*               all_predictions[class_name] = float(predictions[i])
\* run for the first n labels, starting from the empty dict
RECURSIVE FillPredictions(_, _)
FillPredictions(predictions, n) ==
    IF n = 0 THEN << >>
    ELSE LET d == FillPredictions(predictions, n - 1)
             k == CLASS_NAMES[n]
         IN  [ x \in DOMAIN d \cup {k} |->
                 IF x = k THEN predictions[n] ELSE d[x] ]

\* the loop reading predictions[0] for every label
AllPredictionsFirst(predictions) ==
    [ x \in { CLASS_NAMES[i] : i \in 1..Len(CLASS_NAMES) } |-> predictions[1] ]

AllPredictions(predictions) == FillPredictions(predictions, Len(CLASS_NAMES))

\* a lookup that misses every label and so always takes the default
RecommendationsGeneric(predicted_class) == GENERIC_RECOMMENDATIONS

Recommendations(predicted_class) ==
    DictGet(DISEASE_RECOMMENDATIONS, predicted_class, GENERIC_RECOMMENDATIONS)

get_classification_results(predictions) ==
    LET predicted_class_idx == argmax(predictions)
        predicted_class == CLASS_NAMES[predicted_class_idx]
    IN  [ predicted_class |-> predicted_class,
          confidence      |-> predictions[predicted_class_idx],
          all_predictions |-> AllPredictions(predictions),
          recommendations |-> Recommendations(predicted_class) ]

-----------------------------------------------------------------------------
(* The uploaded image, as far as the code reads it *)

\* settings.TARGET_IMAGE_SIZE, (width, height); preprocess_image's default
TARGET_IMAGE_SIZE == <<224, 224>>

\* 10 * 1024 * 1024 bytes
MAX_UPLOAD_BYTES == 10 * 1024 * 1024

ALLOWED_FORMATS == {"JPEG", "PNG", "WEBP", "JPG"}

\* An upload: its size in bytes, whether PIL opens it (a readable header),
\* the format and dimensions PIL reports, whether its pixel data decodes, and
\* the least and greatest pixel value.  has_image: the serializer field has
\* attached the opened image as value.image.
Upload(name, bytes, opens, format, dims, pixels_ok, lo, hi) ==
    [ name |-> name, size |-> bytes, opens |-> opens, has_image |-> opens,
      format |-> format, dims |-> dims, pixels_ok |-> pixels_ok,
      pix_min |-> lo, pix_max |-> hi ]

Uploads ==
    { Upload("leaf",      2048,     TRUE,  "JPEG", <<512, 384>>, TRUE,  0, 255),
      Upload("resized",   2048,     TRUE,  "PNG",  <<224, 224>>, TRUE,  0, 255),
      Upload("dark",      2048,     TRUE,  "PNG",  <<512, 384>>, TRUE,  0, 1),
      Upload("truncated", 2048,     TRUE,  "JPEG", <<512, 384>>, FALSE, 0, 255),
      Upload("cut224",    10485760, TRUE,  "WEBP", <<224, 224>>, FALSE, 0, 255),
      Upload("huge",      10485761, TRUE,  "JPEG", <<512, 384>>, TRUE,  0, 255),
      Upload("anim",      2048,     TRUE,  "GIF",  <<512, 384>>, TRUE,  0, 255),
      Upload("text",      2048,     FALSE, "NONE", <<0, 0>>,     FALSE, 0, 0) }

\* every combination of the attributes check_if_preprocessed reads
AllImages ==
    { Upload("any", 2048, o, "PNG", d, p, lo, hi) :
        o \in BOOLEAN, d \in {<<224, 224>>, <<224, 384>>},
        p \in BOOLEAN, lo \in {-1, 0, 1}, hi \in {1, 2} }

Return(v) == [kind |-> "return", value |-> v]

Raise(e) == [kind |-> "raise", exc |-> e]

-----------------------------------------------------------------------------
(* serializers.py: ImageUploadSerializer *)

\* a size test that also refuses an upload of exactly the limit
validate_image_inclusive(value) ==
    IF value.size >= MAX_UPLOAD_BYTES
    THEN Raise([type |-> "ValidationError", text |-> "Image file too large"])
    ELSE IF value.has_image /\ value.format \notin ALLOWED_FORMATS
    THEN Raise([type |-> "ValidationError", text |-> "Unsupported image format"])
    ELSE Return(value)

validate_image(value) ==
    IF value.size > MAX_UPLOAD_BYTES
    THEN Raise([type |-> "ValidationError", text |-> "Image file too large"])
    ELSE IF value.has_image /\ value.format \notin ALLOWED_FORMATS
    THEN Raise([type |-> "ValidationError", text |-> "Unsupported image format"])
    ELSE Return(value)

\* serializer.is_valid(): the ImageField rejects what PIL cannot open, then
\* validate_image runs
is_valid(data) ==
    IF ~data.opens THEN FALSE
    ELSE validate_image(data).kind = "return"

-----------------------------------------------------------------------------
(* utils.py: check_if_preprocessed *)

\* the body of the try block: Image.open, the size test, np.array, the
\* range test
check_body(image_file) ==
    IF ~image_file.opens
    THEN Raise([type |-> "UnidentifiedImageError", text |-> "cannot identify image file"])
    ELSE IF image_file.dims = TARGET_IMAGE_SIZE THEN Return(TRUE)
    ELSE IF ~image_file.pixels_ok
    THEN Raise([type |-> "OSError", text |-> "image file is truncated"])
    ELSE IF image_file.pix_max <= 1 /\ image_file.pix_min >= 0 THEN Return(TRUE)
    ELSE Return(FALSE)

\* the function without its except clause
check_if_preprocessed_noexcept(image_file) == check_body(image_file)

\* try: ... except Exception: return False
check_if_preprocessed(image_file) ==
    LET r == check_body(image_file)
    IN  IF r.kind = "raise" THEN Return(FALSE) ELSE r

-----------------------------------------------------------------------------
(* utils.py: preprocess_image *)

\* The tensor np.expand_dims(img_array, axis=0): its shape, the image it was
\* computed from, and the range of its values as numerators over den
\* (np.float32 pixel / 255.0).  PIL sizes are (width, height); the array of
\* an RGB image is (height, width, 3).

\* Image.convert("RGB"): every channel value becomes an 8-bit one; values of
\* a wider mode saturate
ConvertRGB(v) == IF v < 0 THEN 0 ELSE IF v > 255 THEN 255 ELSE v

\* Image.resize(target_size): the bounds (lo, hi) on the channel values.  An
\* image already of the target size is copied; resampling saturates at the
\* ends of the 8-bit range and promises no narrower one.
Resize(dims, target_size, lo, hi) ==
    IF dims = target_size THEN [lo |-> lo, hi |-> hi]
    ELSE [lo |-> 0, hi |-> 255]

\* the array without the division of line 103
TensorRaw(image_file, target_size) ==
    LET px == Resize(image_file.dims, target_size,
                     ConvertRGB(image_file.pix_min), ConvertRGB(image_file.pix_max))
    IN  [ shape |-> <<1, target_size[2], target_size[1], 3>>,
          of    |-> image_file.name,
          lo    |-> px.lo,
          hi    |-> px.hi,
          den   |-> 1 ]

\* np.expand_dims(np.array(img.resize(target_size)) / 255.0, axis=0): the
\* array of a width x height image has shape (height, width, 3).  Every
\* value v of the tensor has lo / den <= v <= hi / den.
Tensor(image_file, target_size) ==
    LET px == Resize(image_file.dims, target_size,
                     ConvertRGB(image_file.pix_min), ConvertRGB(image_file.pix_max))
    IN  [ shape |-> <<1, target_size[2], target_size[1], 3>>,
          of    |-> image_file.name,
          lo    |-> px.lo,
          hi    |-> px.hi,
          den   |-> 255 ]

Digits == <<"0", "1", "2", "3", "4", "5", "6", "7", "8", "9">>

\* str(n) of a natural number
RECURSIVE Decimal(_)
Decimal(n) ==
    IF n < 10 THEN Digits[n + 1]
    ELSE Decimal(n \div 10) \o Digits[(n % 10) + 1]

\* f"{img.size[0]}x{img.size[1]}"
SizeString(dims) == Decimal(dims[1]) \o "x" \o Decimal(dims[2])

preprocess_image(image_file, target_size) ==
    IF ~image_file.opens \/ ~image_file.pixels_ok
    THEN Raise([ type |-> "ValueError", text |-> "Error preprocessing image",
                 cause |-> IF image_file.opens THEN "OSError"
                           ELSE "UnidentifiedImageError" ])
    ELSE Return([ tensor        |-> Tensor(image_file, target_size),
                  original_size |-> SizeString(image_file.dims) ])

-----------------------------------------------------------------------------
(* utils.py: run_onnx_inference *)

\* A declared input dimension: an integer, or a string naming a symbolic
\* dimension
Dim(n) == [is_str |-> FALSE, n |-> n]

Sym == [is_str |-> TRUE, n |-> 0]

\* The model file at settings.MODEL_PATH: whether it exists, whether
\* onnxruntime loads it, and the input shape it declares.
ModelFile(exists, loads, shape) ==
    [exists |-> exists, loads |-> loads, input_shape |-> shape]

Models ==
    { ModelFile(FALSE, FALSE, << >>),
      ModelFile(TRUE, FALSE, << >>),
      ModelFile(TRUE, TRUE, <<Sym, Dim(224), Dim(224), Dim(3)>>),
      ModelFile(TRUE, TRUE, <<Dim(1), Dim(224), Dim(224), Dim(3)>>),
      ModelFile(TRUE, TRUE, <<Sym, Dim(3), Dim(224), Dim(224)>>),
      ModelFile(TRUE, TRUE, <<Dim(224), Dim(224), Dim(3)>>) }

\* None if isinstance(dim, str) else dim
Resolve(dim) == [is_none |-> dim.is_str, n |-> dim.n]

ResolvedShape(expected_shape) ==
    [ i \in 1..Len(expected_shape) |-> Resolve(expected_shape[i]) ]

\* the loop over enumerate(zip(image_array.shape, resolved_shape)): the
\* first position, from i on, whose expected dimension is not None and
\* differs from the actual one; 0 when the loop ends without raising
RECURSIVE FirstMismatch(_, _, _)
FirstMismatch(shape, resolved_shape, i) ==
    IF i > Len(shape) \/ i > Len(resolved_shape) THEN 0
    ELSE IF ~resolved_shape[i].is_none /\ shape[i] # resolved_shape[i].n THEN i
    ELSE FirstMismatch(shape, resolved_shape, i + 1)

\* a loop that keeps the last mismatch instead of raising at the first
RECURSIVE LastMismatch(_, _, _)
LastMismatch(shape, resolved_shape, i) ==
    IF i > Len(shape) \/ i > Len(resolved_shape) THEN 0
    ELSE LET later == LastMismatch(shape, resolved_shape, i + 1)
         IN  IF later # 0 THEN later
             ELSE IF ~resolved_shape[i].is_none /\ shape[i] # resolved_shape[i].n
                  THEN i ELSE 0

\* the scores the network computes for a tensor: a function of the image
\* the tensor was made from (session.run, then np.squeeze)
Forward(image_array) ==
    CASE image_array.of = "leaf"    -> <<5, 80, 5, 3, 3, 2, 2>>
      [] image_array.of = "resized" -> <<40, 40, 5, 5, 5, 5, 0>>
      [] image_array.of = "dark"    -> <<0, 0, 0, 0, 0, 0, 100>>
      [] OTHER                      -> <<14, 14, 14, 14, 14, 15, 15>>

InferRaise(e, session, ran) ==
    [kind |-> "raise", exc |-> e, session |-> session, ran |-> ran]

InferReturn(v) ==
    [kind |-> "return", value |-> v, session |-> TRUE, ran |-> TRUE]

\* the shape validation that raises at the last mismatch
ValidateShapeLast(shape, resolved_shape) ==
    IF Len(shape) # Len(resolved_shape)
    THEN Raise([ type |-> "ValueError", text |-> "Dimension mismatch",
                 expected |-> Len(resolved_shape), got |-> Len(shape) ])
    ELSE LET i == LastMismatch(shape, resolved_shape, 1)
         IN  IF i # 0
             THEN Raise([ type |-> "ValueError",
                          text |-> "Shape mismatch at dimension",
                          index |-> i - 1,
                          expected |-> resolved_shape[i].n, got |-> shape[i] ])
             ELSE Return(TRUE)

\* lines 134-146: the rank test, then the loop
ValidateShape(shape, resolved_shape) ==
    IF Len(shape) # Len(resolved_shape)
    THEN Raise([ type |-> "ValueError", text |-> "Dimension mismatch",
                 expected |-> Len(resolved_shape), got |-> Len(shape) ])
    ELSE LET i == FirstMismatch(shape, resolved_shape, 1)
         IN  IF i # 0
             THEN Raise([ type |-> "ValueError",
                          text |-> "Shape mismatch at dimension",
                          index |-> i - 1,
                          expected |-> resolved_shape[i].n, got |-> shape[i] ])
             ELSE Return(TRUE)

\* The body of the try block.  run_ok: whether session.run succeeds on a
\* tensor that passed the validation.  session: a session was constructed;
\* ran: session.run was called.
infer_body(mdl, image_array, run_ok) ==
    IF ~mdl.exists
    THEN InferRaise([type |-> "NoSuchFile", text |-> "model file missing"],
                    FALSE, FALSE)
    ELSE IF ~mdl.loads
    THEN InferRaise([type |-> "InvalidProtobuf", text |-> "model not loadable"],
                    FALSE, FALSE)
    ELSE LET v == ValidateShape(image_array.shape,
                                ResolvedShape(mdl.input_shape))
         IN  IF v.kind = "raise" THEN InferRaise(v.exc, TRUE, FALSE)
             ELSE IF ~run_ok
             THEN InferRaise([type |-> "RuntimeException",
                              text |-> "session.run failed"], TRUE, TRUE)
             ELSE InferReturn(Forward(image_array))

\* try: ... except Exception as e: raise ValueError("Error during ONNX
\* inference: " + str(e))
run_onnx_inference(mdl, image_array, run_ok) ==
    LET r == infer_body(mdl, image_array, run_ok)
    IN  IF r.kind = "raise"
        THEN InferRaise([ type |-> "ValueError",
                          text |-> "Error during ONNX inference",
                          cause |-> r.exc ], r.session, r.ran)
        ELSE r

-----------------------------------------------------------------------------
(* views.py: ClassifyImageView.post, one request per worker *)

\* the request handlers of the process: two requests can be in flight
Workers == {1, 2}

NoImage == Upload("", 0, FALSE, "NONE", <<0, 0>>, FALSE, 0, 0)

NoTensor == [shape |-> << >>, of |-> "", lo |-> 0, hi |-> 0, den |-> 255]

NoResponse == [status |-> 0, error |-> "", data |-> << >>]

NoExc == [type |-> "", text |-> ""]

Idle ==
    [ pc |-> "idle", image |-> NoImage, is_preprocessed |-> FALSE,
      tensor |-> NoTensor, original_size |-> SizeString(<<0, 0>>),
      predictions |-> << >>, results |-> << >>, response |-> NoResponse,
      exc |-> NoExc, fault |-> "", steps |-> << >>,
      sessions |-> 0, forward |-> 0 ]

Response(status, error, data) ==
    [status |-> status, error |-> error, data |-> data]

\* except ValueError as e: 400; except Exception as e: 500
HandleException(e) ==
    IF e.type = "ValueError" THEN Response(400, e.text, << >>)
    ELSE Response(500, "An unexpected error occurred", << >>)

\* the request ends with a response; fault records what went wrong
Finished(r, response, e, fault) ==
    [r EXCEPT !.pc = "done", !.response = response, !.exc = e, !.fault = fault]

\* a request arrives at an idle worker
Receive(w) ==
    /\ req[w].pc = "idle"
    /\ nRequests < MaxRequests
    /\ \E img \in Uploads :
         req' = [req EXCEPT ![w] = [Idle EXCEPT !.pc = "validate", !.image = img]]
    /\ nRequests' = nRequests + 1
    /\ UNCHANGED <<model, db, sessions, inferCalls, input, output>>

\* lines 118-120: serializer.is_valid()
Validate(w) ==
    /\ req[w].pc = "validate"
    /\ req' = [req EXCEPT ![w] =
         IF ~is_valid(@.image)
         THEN Finished(@, Response(400, "invalid upload", << >>), NoExc, "validation")
         ELSE [@ EXCEPT !.pc = "model_check"]]
    /\ UNCHANGED <<model, db, nRequests, sessions, inferCalls, input, output>>

\* a handler without the os.path.exists test
CheckModelSkip(w) ==
    /\ req[w].pc = "model_check"
    /\ req' = [req EXCEPT ![w] = [@ EXCEPT !.pc = "check"]]
    /\ UNCHANGED <<model, db, nRequests, sessions, inferCalls, input, output>>

\* lines 126-133: os.path.exists(settings.MODEL_PATH)
CheckModel(w) ==
    /\ req[w].pc = "model_check"
    /\ req' = [req EXCEPT ![w] =
         IF ~model.exists
         THEN Finished(@, Response(500, "Model file not found", << >>), NoExc,
                       "model_not_found")
         ELSE [@ EXCEPT !.pc = "check"]]
    /\ UNCHANGED <<model, db, nRequests, sessions, inferCalls, input, output>>

\* lines 135-136
CheckPreprocessed(w) ==
    /\ req[w].pc = "check"
    /\ LET r == check_if_preprocessed(req[w].image)
       IN  req' = [req EXCEPT ![w] =
             IF r.kind = "raise"
             THEN Finished([@ EXCEPT !.steps = Append(@, "is_preprocessed")],
                           HandleException(r.exc), r.exc, "check")
             ELSE [@ EXCEPT !.pc = "preprocess", !.is_preprocessed = r.value,
                            !.steps = Append(@, "is_preprocessed")]]
    /\ UNCHANGED <<model, db, nRequests, sessions, inferCalls, input, output>>

\* "Preprocess if needed": a handler that normalizes only what the check
\* did not report as preprocessed
PreprocessIfNeeded(w) ==
    /\ req[w].pc = "preprocess"
    /\ LET r == preprocess_image(req[w].image, TARGET_IMAGE_SIZE)
       IN  req' = [req EXCEPT ![w] =
             IF @.is_preprocessed
             THEN [@ EXCEPT !.pc = "infer",
                            !.tensor = [Tensor(req[w].image, req[w].image.dims)
                                          EXCEPT !.den = 1],
                            !.original_size = SizeString(req[w].image.dims)]
             ELSE IF r.kind = "raise"
             THEN Finished([@ EXCEPT !.steps = Append(@, "normalize")],
                           HandleException(r.exc), r.exc, "preprocess")
             ELSE [@ EXCEPT !.pc = "infer", !.tensor = r.value.tensor,
                            !.original_size = r.value.original_size,
                            !.steps = Append(@, "normalize")]]
    /\ UNCHANGED <<model, db, nRequests, sessions, inferCalls, input, output>>

\* lines 138-141
Preprocess(w) ==
    /\ req[w].pc = "preprocess"
    /\ LET r == preprocess_image(req[w].image, TARGET_IMAGE_SIZE)
       IN  req' = [req EXCEPT ![w] =
             IF r.kind = "raise"
             THEN Finished([@ EXCEPT !.steps = Append(@, "normalize")],
                           HandleException(r.exc), r.exc, "preprocess")
             ELSE [@ EXCEPT !.pc = "infer", !.tensor = r.value.tensor,
                            !.original_size = r.value.original_size,
                            !.steps = Append(@, "normalize")]]
    /\ UNCHANGED <<model, db, nRequests, sessions, inferCalls, input, output>>

\* what went wrong inside run_onnx_inference
InferFault(r) ==
    IF ~r.session THEN "model_load"
    ELSE IF ~r.ran THEN "shape"
    ELSE "inference"

\* the steps of run_onnx_inference that were reached
InferSteps(r) ==
    (IF r.session THEN <<"session">> ELSE << >>) \o
    (IF r.ran THEN <<"infer">> ELSE << >>)

\* the request after run_onnx_inference ended with r
AfterInference(q, r) ==
    LET q1 == [q EXCEPT !.steps = @ \o InferSteps(r),
                        !.sessions = @ + (IF r.session THEN 1 ELSE 0),
                        !.forward = @ + (IF r.ran THEN 1 ELSE 0)]
    IN  IF r.kind = "raise"
        THEN Finished(q1, HandleException(r.exc), r.exc, InferFault(r))
        ELSE [q1 EXCEPT !.pc = "format", !.predictions = r.value]

\* a process that keeps the first session it constructed and reuses it
RunInferenceCached(w) ==
    /\ req[w].pc = "infer"
    /\ \E run_ok \in BOOLEAN :
         LET r == run_onnx_inference(model, req[w].tensor, run_ok)
             fresh == r.session /\ sessions = 0
         IN  /\ req' = [req EXCEPT ![w] =
                   [AfterInference(@, r) EXCEPT !.sessions =
                       req[w].sessions + (IF fresh THEN 1 ELSE 0)]]
             /\ sessions' = sessions + (IF fresh THEN 1 ELSE 0)
    /\ inferCalls' = inferCalls + 1
    /\ UNCHANGED <<model, db, nRequests, input, output>>

\* a process that keeps the tensor to infer in one place shared by all
\* handlers: the network may be run on the other request's tensor
RunInferenceShared(w) ==
    /\ req[w].pc = "infer"
    /\ \E run_ok \in BOOLEAN, o \in Workers :
         /\ req[o].pc = "infer"
         /\ LET r == run_onnx_inference(model, req[o].tensor, run_ok)
            IN  /\ req' = [req EXCEPT ![w] = AfterInference(@, r)]
                /\ sessions' = sessions + (IF r.session THEN 1 ELSE 0)
    /\ inferCalls' = inferCalls + 1
    /\ UNCHANGED <<model, db, nRequests, input, output>>

\* lines 143-144: run_onnx_inference constructs its session, validates the
\* tensor and runs the network
RunInference(w) ==
    /\ req[w].pc = "infer"
    /\ \E run_ok \in BOOLEAN :
         LET r == run_onnx_inference(model, req[w].tensor, run_ok)
         IN  /\ req' = [req EXCEPT ![w] = AfterInference(@, r)]
             /\ sessions' = sessions + (IF r.session THEN 1 ELSE 0)
    /\ inferCalls' = inferCalls + 1
    /\ UNCHANGED <<model, db, nRequests, input, output>>

\* lines 146-147
Format(w) ==
    /\ req[w].pc = "format"
    /\ req' = [req EXCEPT ![w] =
         [@ EXCEPT !.pc = "save",
                   !.results = get_classification_results(req[w].predictions),
                   !.steps = Append(@, "format")]]
    /\ UNCHANGED <<model, db, nRequests, sessions, inferCalls, input, output>>

\* the row ImageClassification.objects.create stores; id and created_at
\* are the row's place in creation order
Record(q, n) ==
    [ id |-> n, image |-> q.image.name,
      predicted_class |-> q.results.predicted_class,
      confidence |-> q.results.confidence,
      all_predictions |-> q.results.all_predictions,
      recommendations |-> q.results.recommendations,
      is_preprocessed |-> q.is_preprocessed,
      image_size |-> q.original_size,
      created_at |-> n ]

\* lines 165-176
ResponseData(q, rec) ==
    [ id |-> rec.id,
      predicted_class |-> q.results.predicted_class,
      confidence |-> q.results.confidence,
      all_predictions |-> q.results.all_predictions,
      recommendations |-> q.results.recommendations,
      is_preprocessed |-> q.is_preprocessed,
      message |-> "Image classified successfully" ]

\* a create whose row stays behind when the handler fails after it
SaveAlways(w) ==
    /\ req[w].pc = "save"
    /\ \E stored \in BOOLEAN :
         LET rec == Record(req[w], Len(db) + 1)
             e == [type |-> "DatabaseError", text |-> "create failed"]
         IN  /\ db' = Append(db, rec)
             /\ req' = [req EXCEPT ![w] =
                   IF stored
                   THEN Finished([@ EXCEPT !.steps = Append(@, "save")],
                                 Response(200, "", ResponseData(@, rec)),
                                 NoExc, "")
                   ELSE Finished([@ EXCEPT !.steps = Append(@, "save")],
                                 HandleException(e), e, "persistence")]
    /\ UNCHANGED <<model, nRequests, sessions, inferCalls, input, output>>

\* lines 152-178: create the row and answer 200; a failing create (database
\* or image storage) is an exception of another type than ValueError
Save(w) ==
    /\ req[w].pc = "save"
    /\ \E stored \in BOOLEAN :
         IF stored
         THEN LET rec == Record(req[w], Len(db) + 1)
              IN  /\ db' = Append(db, rec)
                  /\ req' = [req EXCEPT ![w] =
                        Finished([@ EXCEPT !.steps = Append(@, "save")],
                                 Response(200, "", ResponseData(@, rec)),
                                 NoExc, "")]
         ELSE LET e == [type |-> "DatabaseError", text |-> "create failed"]
              IN  /\ db' = db
                  /\ req' = [req EXCEPT ![w] =
                        Finished([@ EXCEPT !.steps = Append(@, "save")],
                                 HandleException(e), e, "persistence")]
    /\ UNCHANGED <<model, nRequests, sessions, inferCalls, input, output>>

\* the response is sent and the worker is free again
Finish(w) ==
    /\ req[w].pc = "done"
    /\ req' = [req EXCEPT ![w] = Idle]
    /\ UNCHANGED <<model, db, nRequests, sessions, inferCalls, input, output>>

Handle(w) ==
    \/ Receive(w)
    \/ Validate(w)
    \/ CheckModel(w)
    \/ CheckPreprocessed(w)
    \/ Preprocess(w)
    \/ RunInference(w)
    \/ Format(w)
    \/ Save(w)
    \/ Finish(w)

Init ==
    /\ model \in Models
    /\ req = [w \in Workers |-> Idle]
    /\ db = << >>
    /\ nRequests = 0
    /\ sessions = 0
    /\ inferCalls = 0
    /\ input = NotRun
    /\ output = NotRun

Next == \E w \in Workers : Handle(w)

Spec == Init /\ [][Next]_vars

\* the steps a handler takes once its request has arrived
Progress(w) ==
    \/ Validate(w)
    \/ CheckModel(w)
    \/ CheckPreprocessed(w)
    \/ Preprocess(w)
    \/ RunInference(w)
    \/ Format(w)
    \/ Save(w)

-----------------------------------------------------------------------------
(* get_classification_results on every score vector of the label count *)

ScoreVectors == [1..Len(CLASS_NAMES) -> 0..MaxScore]

PipelineAtRest ==
    /\ model = ModelFile(FALSE, FALSE, << >>)
    /\ req = [w \in Workers |-> Idle]
    /\ db = << >>
    /\ nRequests = 0
    /\ sessions = 0
    /\ inferCalls = 0

InitFormat ==
    /\ PipelineAtRest
    /\ input \in { [kind |-> "scores", predictions |-> v] : v \in ScoreVectors }
    /\ output = NotRun

CallFormat ==
    /\ input.kind = "scores"
    /\ output = NotRun
    /\ output' = Return(get_classification_results(input.predictions))
    /\ UNCHANGED <<input, model, req, db, nRequests, sessions, inferCalls>>

NextFormat == CallFormat

SpecFormat == InitFormat /\ [][NextFormat]_vars

-----------------------------------------------------------------------------
(* run_onnx_inference on every tensor shape and declared input shape *)

ShapeDims == {3, 224}

TensorShapes == UNION { [1..n -> ShapeDims] : n \in 0..MaxRank }

DeclaredDims == { Dim(n) : n \in ShapeDims } \cup {Sym}

DeclaredShapes == UNION { [1..n -> DeclaredDims] : n \in 0..MaxRank }

InitInfer ==
    /\ PipelineAtRest
    /\ input \in { [kind |-> "infer", shape |-> t, expected |-> e] :
                     t \in TensorShapes, e \in DeclaredShapes }
    /\ output = NotRun

CallInfer ==
    /\ input.kind = "infer"
    /\ output = NotRun
    /\ \E run_ok \in BOOLEAN :
         output' = run_onnx_inference(
                     ModelFile(TRUE, TRUE, input.expected),
                     [NoTensor EXCEPT !.shape = input.shape, !.of = "leaf"],
                     run_ok)
    /\ UNCHANGED <<input, model, req, db, nRequests, sessions, inferCalls>>

NextInfer == CallInfer

SpecInfer == InitInfer /\ [][NextInfer]_vars

-----------------------------------------------------------------------------
(* Claims about get_classification_results (SpecFormat) *)

Formatted == input.kind = "scores" /\ output.kind = "return"

LabelCount == Len(CLASS_NAMES)

\* C1: for every score vector of length 7 the returned confidence is the
\* largest score, and predicted_class is the canonical label at the lowest
\* index where that largest score occurs.
C1_ArgmaxLowestIndex ==
    Formatted =>
        LET v == input.predictions
            r == output.value
        IN  /\ Len(v) = 7
            /\ \A i \in 1..Len(v) : v[i] <= r.confidence
            /\ \E i \in 1..Len(v) :
                 /\ v[i] = r.confidence
                 /\ \A j \in 1..(i - 1) : v[j] < v[i]
                 /\ r.predicted_class = CLASS_NAMES[i]

\* a result for a vector whose largest score occurs at two positions, the
\* first of them not the first label
C1_Witness ==
    /\ Formatted
    /\ \E i, j \in 1..LabelCount :
         /\ 1 < i /\ i < j
         /\ input.predictions[i] = input.predictions[j]
         /\ \A k \in 1..LabelCount : input.predictions[k] <= input.predictions[i]
         /\ output.value.predicted_class = CLASS_NAMES[i]

\* C2: all_predictions has exactly the 7 canonical labels as keys, and the
\* value of label i is the score at index i.
C2_AllPredictionsExact ==
    Formatted =>
        LET v == input.predictions
            ap == output.value.all_predictions
        IN  /\ DOMAIN ap = { CLASS_NAMES[i] : i \in 1..LabelCount }
            /\ Cardinality(DOMAIN ap) = 7
            /\ \A i \in 1..LabelCount : ap[CLASS_NAMES[i]] = v[i]

\* a result for a vector whose first and last scores differ
C2_Witness ==
    /\ Formatted
    /\ input.predictions[1] # input.predictions[LabelCount]
    /\ output.value.all_predictions["Healthy"] = input.predictions[LabelCount]

\* C3: the result carries exactly 5 recommendations, the table entry of the
\* predicted label; the table has 5 non-empty strings for each canonical
\* label, so the generic list is never the answer for a canonical label.
C3_FiveRecommendations ==
    /\ \A i \in 1..LabelCount :
         /\ CLASS_NAMES[i] \in DOMAIN DISEASE_RECOMMENDATIONS
         /\ Len(DISEASE_RECOMMENDATIONS[CLASS_NAMES[i]]) = 5
         /\ \A k \in 1..5 : DISEASE_RECOMMENDATIONS[CLASS_NAMES[i]][k] # ""
    /\ Formatted =>
         LET r == output.value
         IN  /\ Len(r.recommendations) = 5
             /\ r.recommendations = DISEASE_RECOMMENDATIONS[r.predicted_class]
             /\ r.recommendations # GENERIC_RECOMMENDATIONS

\* a result whose predicted label is the last one of the table
C3_Witness ==
    /\ Formatted
    /\ output.value.predicted_class = "Healthy"
    /\ output.value.recommendations[1] =
         "Continue current management practices as they are effective"

-----------------------------------------------------------------------------
(* Claims about the classify request (Spec) *)

IsPrefix(s, t) == Len(s) <= Len(t) /\ \A i \in 1..Len(s) : s[i] = t[i]

PipelineOrder ==
    <<"is_preprocessed", "normalize", "session", "infer", "format", "save">>

ClientFaults == {"validation", "preprocess"}

ServerFaults == {"model_not_found", "shape", "inference"}

\* C6: a failing request is answered 4xx exactly when the fault is the
\* client's (upload validation, preprocessing) and 5xx when it is the
\* model's or the infrastructure's (model missing, shape mismatch, failed
\* model execution).
C6_StatusByFault ==
    \A w \in Workers :
        (req[w].pc = "done" /\ req[w].fault \in ClientFaults \cup ServerFaults) =>
            /\ (req[w].response.status \in 400..499) <=>
                 (req[w].fault \in ClientFaults)
            /\ (req[w].fault \in ServerFaults) =>
                 (req[w].response.status \in 500..599)

\* C7: an error raised in the pipeline reaches the handler as its own
\* kind: a shape mismatch as the shape error ValidateShape raised, a failed
\* model execution as the inference error, a failed preprocessing as the
\* preprocessing error.
C7_KindsPreserved ==
    \A w \in Workers :
        req[w].pc = "done" =>
            /\ req[w].fault = "shape" =>
                 req[w].exc.text \in {"Shape mismatch at dimension",
                                      "Dimension mismatch"}
            /\ req[w].fault = "inference" =>
                 req[w].exc.text = "Error during ONNX inference"
            /\ req[w].fault = "preprocess" =>
                 req[w].exc.text = "Error preprocessing image"

\* C8: with no model file at the configured path, a request whose upload
\* passes validation ends with the model-not-found response, and neither a
\* session is constructed nor a forward pass run.
C8_MissingModelNoInference ==
    ~model.exists =>
        /\ sessions = 0
        /\ inferCalls = 0
        /\ \A w \in Workers :
             /\ req[w].pc \in {"idle", "validate", "model_check", "done"}
             /\ (req[w].pc = "done" /\ is_valid(req[w].image)) =>
                  /\ req[w].response = Response(500, "Model file not found", << >>)
                  /\ req[w].fault = "model_not_found"
                  /\ req[w].steps = << >>
                  /\ req[w].sessions = 0
                  /\ req[w].forward = 0

\* a valid upload has been answered while the model file is missing
C8_Witness ==
    /\ ~model.exists
    /\ \E w \in Workers :
         /\ req[w].pc = "done"
         /\ is_valid(req[w].image)
         /\ req[w].response.status = 500

\* what the claim says check_if_preprocessed answers
ExpectedPreprocessed(img) ==
    IF ~img.opens THEN FALSE
    ELSE \/ img.dims = TARGET_IMAGE_SIZE
         \/ (img.pixels_ok /\ img.pix_min >= 0 /\ img.pix_max <= 1)

\* C10: check_if_preprocessed never raises; it answers true when the
\* dimensions equal the target size or all pixel values lie in [0, 1], false
\* otherwise and false on a decode failure; a failure inside the check
\* never ends the request.
C10_CheckNeverRaises ==
    /\ \A img \in AllImages \cup Uploads :
         LET r == check_if_preprocessed(img)
         IN  /\ r.kind = "return"
             /\ r.value = ExpectedPreprocessed(img)
             /\ check_body(img).kind = "raise" => r.value = FALSE
    /\ \A w \in Workers :
         /\ req[w].fault # "check"
         /\ req[w].pc \in {"preprocess", "infer", "format", "save"} =>
              req[w].is_preprocessed = ExpectedPreprocessed(req[w].image)

\* the check has failed inside on an upload whose pixel data does not
\* decode, answered false, and the request goes on to normalize
C10_Witness ==
    \E w \in Workers :
        /\ req[w].pc = "preprocess"
        /\ check_body(req[w].image).kind = "raise"
        /\ ~req[w].is_preprocessed

-----------------------------------------------------------------------------
(* Claims about run_onnx_inference (SpecInfer) *)

Inferred == input.kind = "infer" /\ output.kind \in {"return", "raise"}

\* the positions where a non-symbolic declared dimension differs
Mismatches(shape, expected) ==
    { i \in 1..Len(shape) :
        i <= Len(expected) /\ ~expected[i].is_str /\ expected[i].n # shape[i] }

Least(S) == CHOOSE i \in S : \A j \in S : i <= j

\* C9: the tensor is validated before the forward pass: a rank that
\* differs fails; otherwise the first index whose declared dimension is not
\* symbolic and differs fails, reported with the expected and the actual
\* value; symbolic dimensions match anything; the forward pass runs only
\* when nothing mismatches.
C9_ShapeValidation ==
    Inferred =>
        LET t == input.shape
            e == input.expected
            bad == Mismatches(t, e)
        IN  /\ Len(t) # Len(e) =>
                 /\ output.kind = "raise"
                 /\ ~output.ran
                 /\ output.exc.cause.text = "Dimension mismatch"
                 /\ output.exc.cause.expected = Len(e)
                 /\ output.exc.cause.got = Len(t)
            /\ (Len(t) = Len(e) /\ bad # {}) =>
                 /\ output.kind = "raise"
                 /\ ~output.ran
                 /\ output.exc.cause.text = "Shape mismatch at dimension"
                 /\ output.exc.cause.index = Least(bad) - 1
                 /\ output.exc.cause.expected = e[Least(bad)].n
                 /\ output.exc.cause.got = t[Least(bad)]
            /\ (Len(t) = Len(e) /\ bad = {}) => output.ran
            /\ output.ran => (Len(t) = Len(e) /\ bad = {})

\* a tensor of the declared rank with two mismatching dimensions after a
\* symbolic one has been refused at the first of them
C9_Witness ==
    /\ Inferred
    /\ output.kind = "raise"
    /\ Len(input.shape) = Len(input.expected)
    /\ Cardinality(Mismatches(input.shape, input.expected)) >= 2
    /\ input.expected[1].is_str
    /\ output.exc.cause.text = "Shape mismatch at dimension"
    /\ output.exc.cause.index >= 1

-----------------------------------------------------------------------------
(* Claims about upload validation (Spec) *)

\* what the claim says is refused: more than 10MB, or a format other than
\* JPEG, PNG and WebP
TooLargeOrForeign(img) ==
    img.size > 10485760 \/ img.format \notin {"JPEG", "PNG", "WEBP"}

TenMBAllowed(img) ==
    img.opens /\ img.size = 10485760 /\ img.format \in {"JPEG", "PNG", "WEBP"}

\* C11: validation comes first: an upload over 10MB or of a format other
\* than JPEG, PNG, WebP is answered 400 and no pipeline step (check,
\* normalize, session, infer, format, save) runs for it and no row is stored
\* for it; an upload of exactly 10MB in an allowed format passes.
C11_ValidationFirst ==
    /\ \A w \in Workers :
         LET q == req[w]
         IN  /\ q.pc \in {"idle", "validate"} => q.steps = << >>
             /\ (q.pc \notin {"idle", "validate"} /\ TooLargeOrForeign(q.image)) =>
                  /\ q.pc = "done"
                  /\ q.response.status = 400
                  /\ q.fault = "validation"
                  /\ q.steps = << >>
                  /\ q.sessions = 0
                  /\ q.forward = 0
             /\ (q.pc \notin {"idle", "validate"} /\ TenMBAllowed(q.image)) =>
                  q.fault # "validation"
    /\ \A u \in Uploads :
         TooLargeOrForeign(u) => \A i \in 1..Len(db) : db[i].image # u.name

\* an upload of 10MB and one byte has been refused with 400 while an upload
\* of exactly 10MB has passed validation and is in the pipeline
C11_Witness ==
    \E w, o \in Workers :
        /\ req[w].pc = "done"
        /\ req[w].response.status = 400
        /\ req[w].image.size = 10485761
        /\ req[o].pc = "check"
        /\ req[o].image.size = 10485760

-----------------------------------------------------------------------------
(* Claims about concurrent requests (Spec) *)

\* what a request holds is computed from its own image
OwnResult(w) ==
    LET q == req[w]
        t == Tensor(q.image, TARGET_IMAGE_SIZE)
        scores == Forward(t)
        ok == q.pc = "done" /\ q.response.status = 200
    IN  /\ (q.pc \in {"preprocess", "infer", "format", "save"} \/ ok) =>
             q.is_preprocessed = check_if_preprocessed(q.image).value
        /\ (q.pc \in {"infer", "format", "save"} \/ ok) =>
             /\ q.tensor.of = q.image.name
             /\ q.tensor = t
             /\ q.original_size = SizeString(q.image.dims)
        /\ (q.pc \in {"format", "save"} \/ ok) => q.predictions = scores
        /\ ok =>
             /\ q.response.data.all_predictions = AllPredictions(scores)
             /\ q.response.data.predicted_class = CLASS_NAMES[argmax(scores)]
             /\ q.response.data.is_preprocessed =
                  check_if_preprocessed(q.image).value
             /\ \E i \in 1..Len(db) :
                  /\ db[i].id = q.response.data.id
                  /\ db[i].image = q.image.name
                  /\ db[i].image_size = SizeString(q.image.dims)
                  /\ db[i].all_predictions = AllPredictions(scores)

\* how far a request has got
Stage(pc) ==
    CASE pc = "idle" -> 0
      [] pc = "validate" -> 1
      [] pc = "model_check" -> 2
      [] pc = "check" -> 3
      [] pc = "preprocess" -> 4
      [] pc = "infer" -> 5
      [] pc = "format" -> 6
      [] pc = "save" -> 7
      [] pc = "done" -> 8

InFlight(w) == req[w].pc \notin {"idle", "done"}

\* C12: two requests in flight at once both complete, and the scores,
\* predicted class, is_preprocessed and image_size of each come from its own
\* image under every interleaving.  Completion: a request in flight can
\* always take its next step whatever the other request is doing, and every
\* step it takes brings it nearer to its response.
C12_ConcurrentIndependent ==
    /\ [](\A w \in Workers : OwnResult(w))
    /\ [](\A w \in Workers : InFlight(w) => ENABLED Progress(w))
    /\ [][\A w \in Workers :
            (InFlight(w) /\ req'[w] # req[w]) =>
                Stage(req'[w].pc) > Stage(req[w].pc)]_vars

\* both requests have been answered 200, for different images with
\* different predicted classes
C12_Witness ==
    /\ \A w \in Workers : req[w].pc = "done" /\ req[w].response.status = 200
    /\ req[1].image.name # req[2].image.name
    /\ req[1].response.data.predicted_class # req[2].response.data.predicted_class
    /\ req[1].is_preprocessed # req[2].is_preprocessed

-----------------------------------------------------------------------------
(* views.py: ClassificationHistoryView.get over a growing table *)

\* ImageClassification.objects.all()[:50]
HISTORY_LIMIT == 50

\* a request that has got as far as the create
SampleRequest ==
    LET img == CHOOSE u \in Uploads : u.name = "leaf"
        t == Tensor(img, TARGET_IMAGE_SIZE)
    IN  [ Idle EXCEPT !.pc = "save", !.image = img, !.tensor = t,
                      !.original_size = SizeString(img.dims),
                      !.predictions = Forward(t),
                      !.results = get_classification_results(Forward(t)) ]

\* an ordering on "created_at": oldest first
BeforeOldestFirst(a, b, by_id) ==
    \/ a.created_at < b.created_at
    \/ (a.created_at = b.created_at /\ IF by_id THEN a.id < b.id ELSE a.id > b.id)

\* Meta.ordering = ["-created_at"]: a before b in the query's result.  Rows
\* of equal created_at come in an order the database chooses: by_id says
\* which.
Before(a, b, by_id) ==
    \/ a.created_at > b.created_at
    \/ (a.created_at = b.created_at /\ IF by_id THEN a.id < b.id ELSE a.id > b.id)

RECURSIVE InsertRow(_, _, _, _)
InsertRow(sorted, r, by_id, i) ==
    IF i > Len(sorted) THEN Append(sorted, r)
    ELSE IF Before(r, sorted[i], by_id)
    THEN SubSeq(sorted, 1, i - 1) \o <<r>> \o SubSeq(sorted, i, Len(sorted))
    ELSE InsertRow(sorted, r, by_id, i + 1)

\* ORDER BY created_at DESC over the first n rows of the table
RECURSIVE OrderBy(_, _, _)
OrderBy(rows, by_id, n) ==
    IF n = 0 THEN << >>
    ELSE InsertRow(OrderBy(rows, by_id, n - 1), rows[n], by_id, 1)

\* queryset[:k]
Slice(rows, k) == SubSeq(rows, 1, IF Len(rows) < k THEN Len(rows) ELSE k)

\* lines 218-224
history(rows, by_id) ==
    LET classifications == Slice(OrderBy(rows, by_id, Len(rows)), HISTORY_LIMIT)
    IN  [ kind |-> "history", status |-> 200,
          count |-> Len(classifications), results |-> classifications ]

\* rows whose created_at equals that of the row before them
Ties(rows) ==
    Cardinality({ i \in 2..Len(rows) : rows[i].created_at = rows[i - 1].created_at })

InitHistory ==
    /\ PipelineAtRest
    /\ input = NotRun
    /\ output = NotRun

\* a classify request succeeds: views.py:153 stores its row.  created_at is
\* the clock at the create (auto_now_add), which may not have moved since
\* the row before.
CreateRow ==
    /\ Len(db) < MaxRecords
    /\ \E same_tick \in BOOLEAN :
         /\ same_tick => (Len(db) > 0 /\ Ties(db) < MaxTies)
         /\ LET n == Len(db) + 1
                at == IF n = 1 THEN 1
                      ELSE IF same_tick THEN db[n - 1].created_at
                      ELSE db[n - 1].created_at + 1
            IN  db' = Append(db, [Record(SampleRequest, n) EXCEPT !.created_at = at])
    /\ output' = NotRun
    /\ UNCHANGED <<model, req, nRequests, sessions, inferCalls, input>>

CallHistory ==
    /\ \E by_id \in BOOLEAN : output' = history(db, by_id)
    /\ UNCHANGED <<model, req, db, nRequests, sessions, inferCalls, input>>

NextHistory == CreateRow \/ CallHistory

SpecHistory == InitHistory /\ [][NextHistory]_vars

-----------------------------------------------------------------------------
(* Claims about the history (SpecHistory) *)

Listed == output.kind = "history"

\* C13: the history holds min(50, rows stored) rows, they are the most
\* recently created ones, newest first by creation time, and count is the
\* number of rows returned.
C13_HistoryLatest ==
    Listed =>
        LET res == output.results
            ids == { res[i].id : i \in 1..Len(res) }
        IN  /\ Len(res) = IF Len(db) < 50 THEN Len(db) ELSE 50
            /\ output.count = Len(res)
            /\ output.status = 200
            /\ \A i \in 1..Len(res) : \E k \in 1..Len(db) : db[k] = res[i]
            /\ Cardinality(ids) = Len(res)
            /\ \A i \in 1..(Len(res) - 1) :
                 res[i].created_at >= res[i + 1].created_at
            /\ \A k \in 1..Len(db) :
                 db[k].id \notin ids =>
                     \A i \in 1..Len(res) : res[i].created_at >= db[k].created_at

\* more than 50 rows are stored and the history holds 50 of them, the first
\* newer than the last, the two oldest rows left out
C13_Witness ==
    /\ Listed
    /\ Len(db) = 52
    /\ Len(output.results) = 50
    /\ output.results[1].created_at > output.results[50].created_at
    /\ \A i \in 1..50 : output.results[i].id \notin {1, 2}

-----------------------------------------------------------------------------
(* preprocess_image on every kind of image and two target sizes *)

ImageSizes == {<<224, 224>>, <<224, 384>>, <<320, 240>>, <<1080, 9>>}

TargetSizes == {<<224, 224>>, <<320, 240>>}

\* images of 8-bit modes and of wider ones (channel values below 0 and
\* above 255)
PixelImages ==
    { Upload("any", 2048, o, "PNG", d, p, lo, hi) :
        o \in BOOLEAN, d \in ImageSizes, p \in BOOLEAN,
        lo \in {-1, 0, 128}, hi \in {128, 255, 300} }

InitPreprocess ==
    /\ PipelineAtRest
    /\ input \in { [kind |-> "preprocess", image |-> i, target_size |-> t] :
                     i \in PixelImages, t \in TargetSizes }
    /\ output = NotRun

CallPreprocess ==
    /\ input.kind = "preprocess"
    /\ output = NotRun
    /\ output' = preprocess_image(input.image, input.target_size)
    /\ UNCHANGED <<input, model, req, db, nRequests, sessions, inferCalls>>

NextPreprocess == CallPreprocess

SpecPreprocess == InitPreprocess /\ [][NextPreprocess]_vars

-----------------------------------------------------------------------------
(* Claims about preprocess_image (SpecPreprocess) *)

Preprocessed == input.kind = "preprocess" /\ output # NotRun

Decodes(img) == img.opens /\ img.pixels_ok

\* "{width}x{height}" of the sizes of the specification, written out
WrittenSize(dims) ==
    CASE dims = <<224, 224>> -> "224x224"
      [] dims = <<224, 384>> -> "224x384"
      [] dims = <<320, 240>> -> "320x240"
      [] dims = <<1080, 9>>  -> "1080x9"

\* C14: for every image that decodes, preprocess_image returns a tensor of
\* shape [1, target_height, target_width, 3] whose values are 0..255 channel
\* values over 255, so within [0, 1], and the string "{width}x{height}" of
\* the dimensions the image had before it was resized.
C14_PreprocessContract ==
    (Preprocessed /\ Decodes(input.image)) =>
        /\ output.kind = "return"
        /\ LET t == output.value.tensor
           IN  /\ t.shape = <<1, input.target_size[2], input.target_size[1], 3>>
               /\ t.den = 255
               /\ 0 <= t.lo /\ t.lo <= t.hi /\ t.hi <= 255
               /\ t.hi <= t.den
        /\ output.value.original_size = WrittenSize(input.image.dims)

\* a 224 x 384 image of a wide mode is brought to 320 x 240
C14_Witness ==
    /\ Preprocessed
    /\ Decodes(input.image)
    /\ input.image.dims = <<224, 384>>
    /\ input.image.pix_min < 0 /\ input.image.pix_max > 255
    /\ input.target_size = <<320, 240>>
    /\ output.kind = "return"
    /\ output.value.tensor.shape = <<1, 240, 320, 3>>
    /\ output.value.original_size = "224x384"

-----------------------------------------------------------------------------
(* Claims about the rows a classify request stores (Spec) *)

\* the steps a request has run when it ends with the given fault
StepsAtFault(fault) ==
    CASE fault = "validation"      -> << >>
      [] fault = "model_not_found" -> << >>
      [] fault = "check"           -> <<"is_preprocessed">>
      [] fault = "preprocess"      -> <<"is_preprocessed", "normalize">>
      [] fault = "model_load"      -> <<"is_preprocessed", "normalize">>
      [] fault = "shape"           -> <<"is_preprocessed", "normalize", "session">>
      [] fault = "inference"       ->
            <<"is_preprocessed", "normalize", "session", "infer">>
      [] fault = "persistence"     -> PipelineOrder
      [] OTHER                     -> PipelineOrder

Ends(w) == req[w].pc # "done" /\ req'[w].pc = "done"

\* C15: a classify request stores exactly one row when it succeeds and none
\* when it fails.  The step in which a request ends with 200 appends one
\* row, the one its response names, and no other step changes the table; a
\* request that fails at validation, the model-file check, normalize or
\* infer ends in that step with an error response, having run each step up
\* to the failing one once and none after it, and once ended it runs
\* nothing more.
C15_OneRecordOrNone ==
    [][ /\ \A w \in Workers :
             /\ Ends(w) =>
                  IF req'[w].response.status = 200
                  THEN /\ req[w].pc = "save"
                       /\ Len(db') = Len(db) + 1
                       /\ SubSeq(db', 1, Len(db)) = db
                       /\ db'[Len(db')].id = req'[w].response.data.id
                       /\ db'[Len(db')].image = req[w].image.name
                       /\ \A i \in 1..Len(db) : db[i].id # db'[Len(db')].id
                       /\ req'[w].steps = PipelineOrder
                  ELSE /\ db' = db
                       /\ req'[w].response.status \in {400, 500}
                       /\ req'[w].response.data = << >>
                       /\ req'[w].fault # ""
                       /\ req'[w].steps = StepsAtFault(req'[w].fault)
             /\ (req[w].pc = "validate" /\ ~is_valid(req[w].image)) =>
                  (Ends(w) /\ req'[w].fault = "validation") \/ req'[w] = req[w]
             /\ (req[w].pc = "model_check" /\ ~model.exists) =>
                  (Ends(w) /\ req'[w].fault = "model_not_found") \/ req'[w] = req[w]
             /\ (req[w].pc = "preprocess"
                   /\ preprocess_image(req[w].image, <<224, 224>>).kind = "raise") =>
                  (Ends(w) /\ req'[w].fault = "preprocess") \/ req'[w] = req[w]
             /\ (req[w].pc = "infer" /\ req'[w].pc \notin {"infer", "format"}) =>
                  Ends(w) /\ req'[w].fault \in {"model_load", "shape", "inference"}
             /\ req'[w].pc \notin {"idle", "validate"} =>
                  /\ IsPrefix(req[w].steps, req'[w].steps)
                  /\ Len(req'[w].steps) <= Len(req[w].steps) + 2
                  /\ IsPrefix(req'[w].steps, PipelineOrder)
             /\ req[w].pc = "done" => req'[w] = req[w] \/ req'[w] = Idle
        /\ db' # db => \E w \in Workers : Ends(w) /\ req'[w].response.status = 200
      ]_vars

\* one request has stored its row, and the other has failed in infer
\* leaving that row the only one
C15_Witness ==
    \E w, o \in Workers :
        /\ req[w].pc = "done" /\ req[w].response.status = 200
        /\ req[o].pc = "done" /\ req[o].fault = "inference"
        /\ Len(db) = 1
        /\ db[1].id = req[w].response.data.id

=============================================================================
